---- MODULE Spec2Model ----
(***************************************************************************)
(* Model of tools/analysis/analyze_lichess_popularity.py: the resumable,   *)
(* two-worker ingestion pipeline of LichessAnalyzer (download worker,      *)
(* process worker, orchestrator run_analysis), its checkpoint file, its    *)
(* statistics map and the final scoring pass.                              *)
(*                                                                         *)
(* A unit (month) is a number 1..NUnits in list order.  The decoded        *)
(* content of a unit is a fixed sequence of chunks, each holding one game  *)
(* record or bytes that do not decode.  State that lives on disk           *)
(* (checkpoint_file, cache) survives Kill; everything else is rebuilt by   *)
(* the next run.                                                           *)
(***************************************************************************)
EXTENDS Integers, Sequences, FiniteSets, TLC

\* ---------------------------------------------------------------- bounds
NUnits == 2
UnitLen == 2
MaxRuns == 2
MaxLen == 3
SmallKeys == 3
MaxKeys == 90
MaxPlies == 72
MaxText == 7

\* ------------------------------------------------------ program constants
QueueMaxSize == 3
MaxRetries == 3
MaxMoves == 35

Max(a, b) == IF a < b THEN b ELSE a
Min(a, b) == IF a < b THEN a ELSE b

\* the months of a run of NUnits months
Units == 1..NUnits

\* enough months to fill download_queue while one unit is in process and
\* one more waits to be queued
QueueUnits == 1..(QueueMaxSize + 2)

\* every unit id of the model
AllUnits == 1..Max(NUnits, QueueMaxSize + 2)

\* target_fens: the position keys tracked; "X" is a position outside it
target_fens == {"A", "B"}

\* -------------------------------------------------------------- rationals
\* avg_rating is kept exactly, as a normalised fraction <<num, den>>;
\* <<0, 0>> stands for None
None == <<0, 0>>

RECURSIVE GCD(_, _)
GCD(a, b) == IF b = 0 THEN a ELSE GCD(b, a % b)

Norm(n, d) == LET g == GCD(n, d) IN <<n \div g, d \div g>>

\* the mean of the old average and the new rating
RunningAverageHalved(avg, rating, n) ==
    Norm(avg[1] * rating[2] + rating[1] * avg[2], avg[2] * rating[2] * 2)

\* ((avg * (n - 1)) + rating) / n
RunningAverage(avg, rating, n) ==
    Norm(avg[1] * (n - 1) * rating[2] + rating[1] * avg[2], avg[2] * rating[2] * n)

\* ------------------------------------------------------------ unit content
Elo(v) == <<"int", v>>
Unparsable == <<"str", 0>>
\* a header the record does not have
Missing == <<"none", 0>>

\* headers.get(name, default)
HeaderGet(value, default) == IF value = Missing THEN default ELSE value

G1 == [kind |-> "game", WhiteElo |-> Elo(1500), BlackElo |-> Elo(1600),
       Result |-> "1-0", fens |-> <<"A", "X">>]
G2 == [kind |-> "game", WhiteElo |-> Elo(1400), BlackElo |-> Elo(1450),
       Result |-> "1/2-1/2", fens |-> <<"A", "B">>]
G3 == [kind |-> "game", WhiteElo |-> Elo(1800), BlackElo |-> Elo(1820),
       Result |-> "0-1", fens |-> <<"B">>]
G4 == [kind |-> "game", WhiteElo |-> Unparsable, BlackElo |-> Elo(1700),
       Result |-> "*", fens |-> <<"A">>]
BadChunk == [kind |-> "bad", WhiteElo |-> Unparsable, BlackElo |-> Unparsable,
             Result |-> "*", fens |-> << >>]

\* the decoded stream of each unit, chunk by chunk (units beyond the table
\* repeat it, chunks beyond a row repeat the row)
Content == << <<G1, BadChunk, G3>>,
              <<G2, G4, G1>>,
              <<G3, G2, BadChunk>>,
              <<G1, G3, G2>> >>

\* the i-th chunk of the decoded stream of unit u
Item(u, i) ==
    LET row == Content[((u - 1) % Len(Content)) + 1] IN row[((i - 1) % Len(row)) + 1]

\* ------------------------------------------------------------- statistics
PopularityStats ==
    [popularity_score |-> 0, frequency_count |-> 0, white_wins |-> 0,
     black_wins |-> 0, draws |-> 0, games_analyzed |-> 0, avg_rating |-> None,
     confidence_score |-> 0, analysis_date |-> 0]

\* _safe_int: int(value), 0 when the text is no integer
safe_int(value) == IF value[1] = "int" THEN value[2] ELSE 0

\* a process_game that skips a record only when both ratings are 0
PositionUpdatesBothZero(record) ==
    LET white_elo == safe_int(HeaderGet(record.WhiteElo, Elo(0)))
        black_elo == safe_int(HeaderGet(record.BlackElo, Elo(0)))
        plies == Min(Len(record.fens), MaxMoves * 2)
    IN  IF white_elo = 0 /\ black_elo = 0
        THEN << >>
        ELSE SelectSeq([k \in 1..plies |->
                          [fen |-> record.fens[k],
                           rating |-> Norm(white_elo + black_elo, 2),
                           result |-> record.Result]],
                       LAMBDA up : up.fen \in target_fens)

\* a process_game that replays every move of the record
PositionUpdatesUncapped(record) ==
    LET white_elo == safe_int(HeaderGet(record.WhiteElo, Elo(0)))
        black_elo == safe_int(HeaderGet(record.BlackElo, Elo(0)))
    IN  IF white_elo = 0 \/ black_elo = 0
        THEN << >>
        ELSE SelectSeq([k \in 1..Len(record.fens) |->
                          [fen |-> record.fens[k],
                           rating |-> Norm(white_elo + black_elo, 2),
                           result |-> record.Result]],
                       LAMBDA up : up.fen \in target_fens)

\* the (fen, rating, result) updates process_game collects for one record;
\* fens[k] is the position on the board before move k is made
PositionUpdates(game) ==
    LET white_elo == safe_int(HeaderGet(game.WhiteElo, Elo(0)))
        black_elo == safe_int(HeaderGet(game.BlackElo, Elo(0)))
        plies == Min(Len(game.fens), MaxMoves * 2)
    IN  IF white_elo = 0 \/ black_elo = 0
        THEN << >>
        ELSE SelectSeq([k \in 1..plies |->
                          [fen |-> game.fens[k],
                           rating |-> Norm(white_elo + black_elo, 2),
                           result |-> game.Result]],
                       LAMBDA up : up.fen \in target_fens)

\* an update that counts every result that is no win as a draw
UpdateStatsUndecidedDrawn(s, rating, game_result) ==
    LET n == s.games_analyzed + 1 IN
    [s EXCEPT !.games_analyzed = n,
              !.frequency_count = s.frequency_count + 1,
              !.avg_rating = IF s.avg_rating = None THEN rating
                             ELSE RunningAverage(s.avg_rating, rating, n),
              !.white_wins = IF game_result = "1-0" THEN @ + 1 ELSE @,
              !.black_wins = IF game_result = "0-1" THEN @ + 1 ELSE @,
              !.draws = IF game_result \notin {"1-0", "0-1"} THEN @ + 1 ELSE @]

\* an update that leaves frequency_count as it was
UpdateStatsFrequencyKept(s, rating, game_result) ==
    LET n == s.games_analyzed + 1 IN
    [s EXCEPT !.games_analyzed = n,
              !.avg_rating = IF s.avg_rating = None THEN rating
                             ELSE RunningAverage(s.avg_rating, rating, n),
              !.white_wins = IF game_result = "1-0" THEN @ + 1 ELSE @,
              !.black_wins = IF game_result = "0-1" THEN @ + 1 ELSE @,
              !.draws = IF game_result = "1/2-1/2" THEN @ + 1 ELSE @]

\* one update of the batch applied to the record of its key
UpdateStats(s, rating, game_result) ==
    LET n == s.games_analyzed + 1 IN
    [s EXCEPT !.games_analyzed = n,
              !.frequency_count = s.frequency_count + 1,
              !.avg_rating = IF s.avg_rating = None THEN rating
                             ELSE RunningAverage(s.avg_rating, rating, n),
              !.white_wins = IF game_result = "1-0" THEN @ + 1 ELSE @,
              !.black_wins = IF game_result = "0-1" THEN @ + 1 ELSE @,
              !.draws = IF game_result = "1/2-1/2" THEN @ + 1 ELSE @]

\* a locked loop without the `fen in self.stats` check: the record of a
\* missing key is created
RECURSIVE ApplyUpdatesCreating(_, _)
ApplyUpdatesCreating(st, ups) ==
    IF ups = << >> THEN st
    ELSE LET up == Head(ups) IN
         ApplyUpdatesCreating(
             [f \in DOMAIN st \cup {up.fen} |->
                 IF f = up.fen
                 THEN UpdateStats(IF f \in DOMAIN st THEN st[f] ELSE PopularityStats,
                                  up.rating, up.result)
                 ELSE st[f]],
             Tail(ups))

\* the locked loop of process_game over the batch
RECURSIVE ApplyUpdates(_, _)
ApplyUpdates(st, ups) ==
    IF ups = << >> THEN st
    ELSE LET up == Head(ups) IN
         ApplyUpdates(IF up.fen \in DOMAIN st
                      THEN [st EXCEPT ![up.fen] = UpdateStats(@, up.rating, up.result)]
                      ELSE st,
                      Tail(ups))


\* process_local_file run to the end of the stream with no read error:
\* bad chunks are skipped, every record goes through process_game
RECURSIVE ProcessItems(_, _, _)
ProcessItems(st, u, i) ==
    IF i > UnitLen THEN st
    ELSE ProcessItems(IF Item(u, i).kind = "game"
                      THEN ApplyUpdates(st, PositionUpdates(Item(u, i)))
                      ELSE st,
                      u, i + 1)

\* ---------------------------------------------------------------- scoring
RECURSIVE SortedCounts(_)
SortedCounts(fs) ==
    IF fs = {} THEN << >>
    ELSE LET f == CHOOSE x \in fs : \A y \in fs : x[2] <= y[2]
         IN  <<f[2]>> \o SortedCounts(fs \ {f})

\* game_counts, sorted: games_analyzed of every key with a positive count
GameCounts(st) ==
    SortedCounts({<<f, st[f].games_analyzed>> : f \in {g \in DOMAIN st : st[g].games_analyzed > 0}})

\* the largest power of two below q, from p up
RECURSIVE PowerBelow(_, _)
PowerBelow(q, p) == IF 2 * p < q THEN PowerBelow(q, 2 * p) ELSE p

\* int((i / 10) * n) in IEEE double arithmetic.  i / 10 is the double
\* nearest to the tenth, and the product is rounded to the nearest double
\* (ties to even).  When i * n / 10 is no integer the result is its floor.
\* When it is an integer q the product is below q only for a tenth whose
\* double is below it (0.3, 0.6, 0.7) and only when the distance, n times
\* the error of the tenth, is more than half the spacing of the doubles
\* just below q; for 0.3 and 0.6 it never is, for 0.7 = 7/10 - 1/(5 * 2^52)
\* it is when 4 * (n / 10) exceeds the largest power of two below q, and
\* then the result is q - 1 (first for n = 90: int(0.7 * 90) = 62).
IntOfProduct(i, n) ==
    LET q == (i * n) \div 10 IN
    IF /\ i = 7 /\ n % 10 = 0 /\ q > 1
       /\ 4 * (n \div 10) > PowerBelow(q, 1)
    THEN q - 1
    ELSE q

\* index = int((i / 10) * n) - 1, raised to 0
DecileIndex(i, n) ==
    LET index == IntOfProduct(i, n) - 1 IN IF index < 0 THEN 0 ELSE index

PercentileThresholds(game_counts) ==
    [i \in 1..10 |-> game_counts[DecileIndex(i, Len(game_counts)) + 1]]

\* a scan that stops only at a threshold above the count
RECURSIVE ScoreScanStrict(_, _, _, _)
ScoreScanStrict(games, thresholds, k, score) ==
    IF k > Len(thresholds) \/ games < thresholds[k] THEN score
    ELSE ScoreScanStrict(games, thresholds, k + 1, score + 1)

\* a scan that counts the thresholds the count does not exceed
RECURSIVE ScoreScanInverted(_, _, _, _)
ScoreScanInverted(games, thresholds, k, score) ==
    IF k > Len(thresholds) THEN score
    ELSE ScoreScanInverted(games, thresholds, k + 1,
                           IF games <= thresholds[k] THEN score + 1 ELSE score)

RECURSIVE ScoreScan(_, _, _, _)
ScoreScan(games, thresholds, k, score) ==
    IF k > Len(thresholds) \/ games <= thresholds[k] THEN score
    ELSE ScoreScan(games, thresholds, k + 1, score + 1)

\* a ladder whose steps start one game late
ConfidenceLate(games) ==
    IF games > 1000 THEN 10 ELSE IF games > 100 THEN 8
    ELSE IF games > 10 THEN 6 ELSE 4

\* confidence_score in tenths
Confidence(games) ==
    IF games >= 1000 THEN 10 ELSE IF games >= 100 THEN 8
    ELSE IF games >= 10 THEN 6 ELSE 4

AssignScore(s, thresholds) ==
    IF s.games_analyzed = 0
    THEN [s EXCEPT !.popularity_score = 0, !.confidence_score = 0]
    ELSE [s EXCEPT !.popularity_score = Min(ScoreScan(s.games_analyzed, thresholds, 1, 1), 10),
                   !.confidence_score = Confidence(s.games_analyzed)]

\* ------------------------------------------------------------- checkpoint
RECURSIVE SetToList(_)
SetToList(S) ==
    IF S = {} THEN << >>
    ELSE LET x == CHOOSE y \in S : \A z \in S : y <= z IN <<x>> \o SetToList(S \ {x})

ListToSet(l) == {l[k] : k \in DOMAIN l}

\* asdict(stats): the record as the JSON object of its fields
asdict(s) == [k \in DOMAIN s |-> s[k]]

\* a restore that takes the counts and leaves the average at its default
FromDictCounts(d) ==
    [k \in DOMAIN PopularityStats |->
        IF k = "avg_rating" THEN PopularityStats[k] ELSE d[k]]

\* PopularityStats(**stats_data)
FromDict(d) ==
    [k \in DOMAIN PopularityStats |-> IF k \in DOMAIN d THEN d[k] ELSE PopularityStats[k]]

\* PopularityStats(**stats_data) returns: every key of the object is a
\* field of the dataclass
Restorable(d) == DOMAIN d \subseteq DOMAIN PopularityStats

\* a record of a document that has a key PopularityStats does not take
Unrestorable == [games_analyzed |-> 1, move_count |-> 1]

\* the order of the keys of stats, which a saved document keeps
FenOrder == <<"A", "B">>

\* the keys whose records the loop of load_checkpoint has assigned when it
\* ends or raises: those up to the first record that is not restorable
Restored(file) ==
    LET \* key g comes before key f in the document, or is f
        UpTo(g, f) ==
            \/ g = f
            \/ \E i, j \in DOMAIN FenOrder :
                  i < j /\ FenOrder[i] = g /\ FenOrder[j] = f
    IN  {f \in DOMAIN file.stats :
            \A g \in DOMAIN file.stats : UpTo(g, f) => Restorable(file.stats[g])}

ZeroMap == [f \in target_fens |-> PopularityStats]
EmptyMap == [f \in {} |-> PopularityStats]

NoCheckpoint == [state |-> "absent", processed_months |-> << >>, stats |-> EmptyMap]
Truncated == [state |-> "partial", processed_months |-> << >>, stats |-> EmptyMap]

\* checkpoint_data of save_checkpoint
CheckpointData(processed, st) ==
    [state |-> "full", processed_months |-> SetToList(processed),
     stats |-> [f \in DOMAIN st |-> asdict(st[f])]]

ZeroApplied == [u \in AllUnits |-> [i \in 1..UnitLen |-> 0]]

\* ------------------------------------------------------------------ state
VARIABLES
    months,               \* what generate_month_list returns in every run
    \* on disk
    checkpoint_file,      \* the document at the checkpoint path
    cache,                \* unit -> the file temp_<unit>.pgn.zst: "none", "valid"
                          \* (complete, passes validation), "invalid", "partial"
    tmp_file,             \* unit -> the file temp_<unit>.pgn.zst.tmp: "none",
                          \* "partial", "complete" or "invalid"
    \* LichessAnalyzer fields
    stats, processed_months, download_queue, download_complete,
    shutdown_requested, stats_lock,
    \* run_analysis (main thread)
    oPc, remaining_months, percentile_thresholds,
    \* download_worker
    dPc, dIdx,
    attempt,              \* loop variable of download_file_with_retry
    \* process_worker
    pPc, month, pPos, checkpoint_data,
    \* history
    run,                  \* number of the current run (process)
    applied,              \* unit -> chunk -> times its record is in stats
    ckApplied,            \* the same for the statistics of checkpoint_file
    dataApplied,          \* the same for the snapshot checkpoint_data
    ckAtStart,            \* completed set of the checkpoint when the run began
    fetched, published, taken,   \* units fetched / queued / dequeued in this run
    failed_download,      \* the unit whose download failed for good, 0 if none
    scored, saved,        \* finished calls of the scorer / result writer, this run
    attempts,             \* requests made by the current call of download_file_with_retry
    \* the update of one record, on its own
    calc,                 \* the statistics map the updates are applied to
    pending,              \* updates still to apply
    seen,                 \* updates applied, in order
    \* process_game, call by call
    game_text,            \* the record of the last call
    position_updates,     \* the updates that call collected
    calls,                \* number of calls so far
    \* process_local_file, chunk by chunk
    stream,               \* what the stream reader yields, byte by byte
    offset,               \* bytes read so far
    game_buffer,          \* the text not yet split
    handed,               \* the records given to process_game, in order
    skipped,              \* chunks dropped by the except of the chunk loop
    sPc                   \* "reading", "returned" (True) or "failed" (False)

disk == <<checkpoint_file, cache>>
fields == <<stats, processed_months, download_queue, download_complete,
            shutdown_requested, stats_lock>>
mainVars == <<oPc, remaining_months, percentile_thresholds>>
dlVars == <<dPc, dIdx>>
pwVars == <<pPc, month, pPos, checkpoint_data>>
history == <<run, applied, ckApplied, dataApplied, ckAtStart, fetched, published,
             taken, failed_download, scored, saved>>
fetchVars == <<tmp_file, attempt, attempts>>
splitVars == <<stream, offset, game_buffer, handed, skipped, sPc>>
calcVars == <<calc, pending, seen, game_text, position_updates, calls, splitVars>>
vars == <<months, disk, fields, mainVars, dlVars, pwVars, history, fetchVars, calcVars>>

\* LichessAnalyzer.__init__ and the locals of a fresh process
Fresh ==
    /\ stats = EmptyMap
    /\ processed_months = {}
    /\ download_queue = << >>
    /\ download_complete = FALSE
    /\ shutdown_requested = FALSE
    /\ stats_lock = "free"
    /\ oPc = "init"
    /\ remaining_months = << >>
    /\ percentile_thresholds = << >>
    /\ dPc = "idle" /\ dIdx = 0 /\ attempt = 0 /\ attempts = 0
    /\ pPc = "idle" /\ month = 0 /\ pPos = 0
    /\ checkpoint_data = NoCheckpoint
    /\ applied = ZeroApplied
    /\ dataApplied = ZeroApplied
    /\ fetched = {} /\ published = {} /\ taken = {}
    /\ failed_download = 0
    /\ scored = 0 /\ saved = 0

\* nothing on disk, a new process
FirstRun ==
    /\ checkpoint_file = NoCheckpoint
    /\ cache = [u \in AllUnits |-> "none"]
    /\ tmp_file = [u \in AllUnits |-> "none"]
    /\ Fresh
    /\ run = 1
    /\ ckApplied = ZeroApplied
    /\ ckAtStart = {}

\* ------------------------------------------------------- run_analysis
\* cleanup_temp_files: safe_file_remove on every temp file; a
\* PermissionError it re-raises ends the loop and is logged, the files stay
CleanedCache(removed) == IF removed THEN [u \in AllUnits |-> "none"] ELSE cache

\* the same for the .tmp files, which the glob of cleanup_temp_files includes
CleanedTemp(removed) == IF removed THEN [u \in AllUnits |-> "none"] ELSE tmp_file

\* remaining_months: months not in processed_months
RemainingMonths(all_months, processed) ==
    SelectSeq(all_months, LAMBDA m : m \notin processed)

\* a load_checkpoint that does not read the completed set
LoadedMonthsIgnored(file, current) == current

\* a load_checkpoint that does not restore the statistics
LoadedStatsKept(file, current) == current

\* load_checkpoint: the completed set after it
LoadedMonths(file, current) ==
    IF file.state = "full" THEN ListToSet(file.processed_months) ELSE current

\* load_checkpoint: the statistics map after it
LoadedStats(file, current) ==
    IF file.state = "full"
    THEN [f \in DOMAIN current \cup Restored(file) |->
            IF f \in Restored(file) THEN FromDict(file.stats[f]) ELSE current[f]]
    ELSE current

\* run_analysis up to load_target_fens: first cleanup, zero-valued records
O_Init ==
    /\ oPc = "init"
    /\ \E removed \in BOOLEAN :
          cache' = CleanedCache(removed) /\ tmp_file' = CleanedTemp(removed)
    /\ stats' = [f \in target_fens |-> PopularityStats]
    /\ oPc' = "load"
    /\ UNCHANGED <<months, attempt, attempts, calcVars>>
    /\ UNCHANGED <<checkpoint_file, processed_months, download_queue,
                   download_complete, shutdown_requested, stats_lock,
                   remaining_months, percentile_thresholds, dlVars, pwVars, history>>

\* load_checkpoint, generate_month_list, the filter of remaining_months
O_Load ==
    /\ oPc = "load"
    /\ processed_months' = LoadedMonths(checkpoint_file, processed_months)
    /\ stats' = LoadedStats(checkpoint_file, stats)
    /\ applied' = IF /\ checkpoint_file.state = "full"
                      /\ Restored(checkpoint_file) = DOMAIN checkpoint_file.stats
                   THEN ckApplied ELSE applied
    /\ remaining_months' = RemainingMonths(months, processed_months')
    /\ oPc' = IF remaining_months' = << >> THEN "score" ELSE "start"
    /\ UNCHANGED <<months, fetchVars, calcVars>>
    /\ UNCHANGED <<disk, download_queue, download_complete, shutdown_requested,
                   stats_lock, percentile_thresholds, dlVars, pwVars, run, ckApplied,
                   dataApplied, ckAtStart, fetched, published, taken,
                   failed_download, scored, saved>>

\* both worker threads are started
O_Start ==
    /\ oPc = "start"
    /\ dPc' = "loop" /\ dIdx' = 1
    /\ pPc' = "get"
    /\ oPc' = "join_dl"
    /\ UNCHANGED <<months, fetchVars, calcVars>>
    /\ UNCHANGED <<disk, fields, remaining_months, percentile_thresholds,
                   month, pPos, checkpoint_data, history>>

\* download_thread.join() returns
O_JoinDownload ==
    /\ oPc = "join_dl" /\ dPc = "done"
    /\ oPc' = "join_pw"
    /\ UNCHANGED <<months, fetchVars, calcVars>>
    /\ UNCHANGED <<disk, fields, remaining_months, percentile_thresholds, dlVars,
                   pwVars, history>>

\* process_thread.join() returns
O_JoinProcess ==
    /\ oPc = "join_pw" /\ pPc = "done"
    /\ oPc' = "score"
    /\ UNCHANGED <<months, fetchVars, calcVars>>
    /\ UNCHANGED <<disk, fields, remaining_months, percentile_thresholds, dlVars,
                   pwVars, history>>

\* KeyboardInterrupt inside the try of the two joins
O_Interrupt ==
    /\ oPc \in {"join_dl", "join_pw"}
    /\ shutdown_requested' = TRUE
    /\ oPc' = "grace_dl"
    /\ UNCHANGED <<months, fetchVars, calcVars>>
    /\ UNCHANGED <<disk, stats, processed_months, download_queue, download_complete,
                   stats_lock, remaining_months, percentile_thresholds, dlVars,
                   pwVars, history>>

\* download_thread.join(timeout=5): returns when the thread ends or after 5 s
O_GraceDownload ==
    /\ oPc = "grace_dl"
    /\ oPc' = "grace_pw"
    /\ UNCHANGED <<months, fetchVars, calcVars>>
    /\ UNCHANGED <<disk, fields, remaining_months, percentile_thresholds, dlVars,
                   pwVars, history>>

\* process_thread.join(timeout=5)
O_GraceProcess ==
    /\ oPc = "grace_pw"
    /\ oPc' = "score"
    /\ UNCHANGED <<months, fetchVars, calcVars>>
    /\ UNCHANGED <<disk, fields, remaining_months, percentile_thresholds, dlVars,
                   pwVars, history>>

\* KeyboardInterrupt anywhere else in run_analysis: it is no Exception, so
\* only the finally clause runs before it leaves run_analysis
O_InterruptUncaught ==
    /\ oPc \in {"load", "start", "grace_dl", "grace_pw", "score", "scoring",
                "save", "saving"}
    /\ oPc' = "finally_raise"
    /\ percentile_thresholds' = << >>
    /\ UNCHANGED <<months, fetchVars, calcVars>>
    /\ UNCHANGED <<disk, fields, remaining_months, dlVars,
                   pwVars, history>>

\* calculate_popularity_scores: game_counts and the thresholds; returns at
\* once when no position has a game
O_ScoreBegin ==
    /\ oPc = "score"
    /\ LET game_counts == GameCounts(stats) IN
       IF game_counts = << >>
       THEN /\ oPc' = "save"
            /\ scored' = scored + 1
            /\ UNCHANGED percentile_thresholds
       ELSE /\ oPc' = "scoring"
            /\ percentile_thresholds' = PercentileThresholds(game_counts)
            /\ UNCHANGED scored
    /\ UNCHANGED <<months, fetchVars, calcVars>>
    /\ UNCHANGED <<disk, fields, remaining_months, dlVars, pwVars, run, applied,
                   ckApplied, dataApplied, ckAtStart, fetched, published, taken,
                   failed_download, saved>>

\* calculate_popularity_scores: the loop that assigns the scores
O_ScoreEnd ==
    /\ oPc = "scoring"
    /\ stats' = [f \in DOMAIN stats |-> AssignScore(stats[f], percentile_thresholds)]
    /\ scored' = scored + 1
    /\ percentile_thresholds' = << >>
    /\ oPc' = "save"
    /\ UNCHANGED <<months, fetchVars, calcVars>>
    /\ UNCHANGED <<disk, processed_months, download_queue, download_complete,
                   shutdown_requested, stats_lock, remaining_months,
                   dlVars, pwVars, run, applied, ckApplied,
                   dataApplied, ckAtStart, fetched, published, taken,
                   failed_download, saved>>

\* save_final_results is entered
O_SaveBegin ==
    /\ oPc = "save"
    /\ oPc' = "saving"
    /\ UNCHANGED <<months, fetchVars, calcVars>>
    /\ UNCHANGED <<disk, fields, remaining_months, percentile_thresholds, dlVars,
                   pwVars, history>>

\* save_final_results: analysis_date is set (the run number is the clock)
\* and the result document is written; `saved` counts the documents
O_SaveEnd ==
    /\ oPc = "saving"
    /\ stats' = [f \in DOMAIN stats |-> [stats[f] EXCEPT !.analysis_date = run]]
    /\ saved' = saved + 1
    /\ oPc' = "finally"
    /\ UNCHANGED <<months, fetchVars, calcVars>>
    /\ UNCHANGED <<disk, processed_months, download_queue,
                   download_complete, shutdown_requested, stats_lock,
                   remaining_months, percentile_thresholds, dlVars, pwVars, run,
                   applied, ckApplied, dataApplied, ckAtStart, fetched, published,
                   taken, failed_download, scored>>

\* save_final_results raises (the output file cannot be written): the
\* except Exception clause of run_analysis sets shutdown_requested
O_SaveFail ==
    /\ oPc = "saving"
    /\ shutdown_requested' = TRUE
    /\ oPc' = "finally"
    /\ UNCHANGED <<months, fetchVars, calcVars>>
    /\ UNCHANGED <<disk, stats, processed_months, download_queue, download_complete,
                   stats_lock, remaining_months, percentile_thresholds, dlVars,
                   pwVars, history>>

\* finally: cleanup_temp_files, then run_analysis returns (or the
\* KeyboardInterrupt leaves it)
O_Finally ==
    /\ oPc \in {"finally", "finally_raise"}
    /\ \E removed \in BOOLEAN :
          cache' = CleanedCache(removed) /\ tmp_file' = CleanedTemp(removed)
    /\ oPc' = IF oPc = "finally" THEN "returned" ELSE "raised"
    /\ UNCHANGED <<months, attempt, attempts, calcVars>>
    /\ UNCHANGED <<checkpoint_file, fields, remaining_months,
                   percentile_thresholds, dlVars, pwVars, history>>

\* ----------------------------------------------------- download_worker
\* the worker leaves its loop: finally sets download_complete
DownloadFinished ==
    /\ download_complete' = TRUE
    /\ dIdx' = 0
    /\ dPc' = "done"

\* a download worker that logs the failure and goes on to the next month
DownloadSkipped(m) ==
    /\ failed_download' = m
    /\ dIdx' = dIdx + 1
    /\ dPc' = "loop"
    /\ UNCHANGED <<shutdown_requested, download_complete>>

\* a download that failed for good: shutdown_requested is set, break
DownloadFailed(m) ==
    /\ shutdown_requested' = TRUE
    /\ failed_download' = m
    /\ DownloadFinished

\* top of the for loop: shutdown check, checkpoint protection, reuse of a
\* validated existing file, else the existing file is removed and
\* download_file_with_retry starts
D_Loop ==
    /\ dPc = "loop"
    /\ IF shutdown_requested \/ dIdx > Len(remaining_months)
       THEN DownloadFinished
       ELSE IF remaining_months[dIdx] \in processed_months
       THEN /\ dIdx' = dIdx + 1
            /\ UNCHANGED <<dPc, download_complete>>
       ELSE IF cache[remaining_months[dIdx]] = "valid"
       THEN /\ dPc' = "put"
            /\ UNCHANGED <<dIdx, download_complete>>
       ELSE /\ dPc' = "fetch"
            /\ UNCHANGED <<dIdx, download_complete>>
    /\ cache' = IF /\ dPc' = "fetch"
                   /\ cache[remaining_months[dIdx]] # "none"
                THEN [cache EXCEPT ![remaining_months[dIdx]] = "none"]
                ELSE cache
    /\ UNCHANGED <<months, fetchVars, calcVars>>
    /\ UNCHANGED <<checkpoint_file, stats, processed_months, download_queue,
                   shutdown_requested, stats_lock, mainVars, pwVars, history>>

\* download_file_with_retry returns True: within max_retries attempts a
\* fetched temp file passed validation and was moved to the final path
D_FetchOk ==
    /\ dPc = "fetch"
    /\ cache' = [cache EXCEPT ![remaining_months[dIdx]] = "valid"]
    /\ fetched' = fetched \cup {remaining_months[dIdx]}
    /\ dPc' = "validate"
    /\ UNCHANGED <<months, fetchVars, calcVars>>
    /\ UNCHANGED <<checkpoint_file, fields, mainVars, dIdx, pwVars, run,
                   applied, ckApplied, dataApplied, ckAtStart, published, taken,
                   failed_download, scored, saved>>

\* download_file_with_retry returns False: every attempt failed
D_FetchFail ==
    /\ dPc = "fetch"
    /\ fetched' = fetched \cup {remaining_months[dIdx]}
    /\ DownloadFailed(remaining_months[dIdx])
    /\ UNCHANGED <<months, fetchVars, calcVars>>
    /\ UNCHANGED <<disk, stats, processed_months, download_queue, stats_lock,
                   mainVars, pwVars, run, applied, ckApplied, dataApplied,
                   ckAtStart, published, taken, scored, saved>>

\* ---- download_file_with_retry, attempt by attempt
FetchStates == {"fetch", "f_write", "f_validate", "f_move", "f_sleep"}

\* the unit download_file_with_retry is called for
FetchUnit == remaining_months[dIdx]

\* the file a move puts at the final path
Installed(t) == IF t = "complete" THEN "valid" ELSE t

\* a loop that starts another attempt however many have failed
FetchRetryForever(u) ==
    /\ attempt' = attempt + 1
    /\ dPc' = "fetch"
    /\ UNCHANGED <<dIdx, download_complete, shutdown_requested, failed_download>>

\* the end of a failed attempt: the next attempt, or False after the last
FetchRetry(u) ==
    IF attempt < MaxRetries - 1
    THEN /\ attempt' = attempt + 1
         /\ dPc' = "fetch"
         /\ UNCHANGED <<dIdx, download_complete, shutdown_requested, failed_download>>
    ELSE /\ attempt' = 0
         /\ DownloadFailed(u)

\* the end of an attempt that raised: time.sleep(30) before the next
\* attempt, or False after the last
FetchRaise(u) ==
    IF attempt < MaxRetries - 1
    THEN /\ dPc' = "f_sleep"
         /\ UNCHANGED <<attempt, dIdx, download_complete, shutdown_requested,
                        failed_download>>
    ELSE /\ attempt' = 0
         /\ DownloadFailed(u)

\* time.sleep(30) returns: the loop goes on to the next attempt
F_Sleep ==
    /\ dPc = "f_sleep"
    /\ attempt' = attempt + 1
    /\ dPc' = "fetch"
    /\ UNCHANGED <<months, tmp_file, attempts, calcVars>>
    /\ UNCHANGED <<disk, fields, mainVars, dIdx, pwVars, history>>

\* start of an attempt: the old .tmp file is removed, the request succeeds,
\* the .tmp file is opened for writing
F_Request ==
    /\ dPc = "fetch"
    /\ tmp_file' = [tmp_file EXCEPT ![FetchUnit] = "partial"]
    /\ attempts' = attempts + 1
    /\ fetched' = fetched \cup {FetchUnit}
    /\ dPc' = "f_write"
    /\ UNCHANGED <<months, attempt, calcVars>>
    /\ UNCHANGED <<disk, fields, mainVars, dIdx, pwVars, run, applied, ckApplied,
                   dataApplied, ckAtStart, published, taken, failed_download,
                   scored, saved>>

\* start of an attempt: requests.get or raise_for_status raises
F_RequestFail ==
    /\ dPc = "fetch"
    /\ tmp_file' = [tmp_file EXCEPT ![FetchUnit] = "none"]
    /\ attempts' = attempts + 1
    /\ fetched' = fetched \cup {FetchUnit}
    /\ FetchRaise(FetchUnit)
    /\ UNCHANGED <<months, calcVars>>
    /\ UNCHANGED <<disk, stats, processed_months, download_queue, stats_lock,
                   mainVars, pwVars, run, applied, ckApplied, dataApplied,
                   ckAtStart, published, taken, scored, saved>>

\* the transfer runs to its end: the .tmp file holds what the server sent
F_Write ==
    /\ dPc = "f_write"
    /\ \E content \in {"complete", "invalid"} :
          tmp_file' = [tmp_file EXCEPT ![FetchUnit] = content]
    /\ dPc' = "f_validate"
    /\ UNCHANGED <<months, attempt, attempts, calcVars>>
    /\ UNCHANGED <<disk, fields, mainVars, dIdx, pwVars, history>>

\* the transfer raises part-way: the .tmp file is removed
F_WriteFail ==
    /\ dPc = "f_write"
    /\ tmp_file' = [tmp_file EXCEPT ![FetchUnit] = "none"]
    /\ FetchRaise(FetchUnit)
    /\ UNCHANGED <<months, attempts, calcVars>>
    /\ UNCHANGED <<disk, stats, processed_months, download_queue, stats_lock,
                   mainVars, pwVars, run, applied, ckApplied, dataApplied,
                   ckAtStart, fetched, published, taken, scored, saved>>

\* a validation of the .tmp file that lets every file pass
F_ValidateSkipped ==
    /\ dPc = "f_validate"
    /\ dPc' = "f_move"
    /\ UNCHANGED <<months, fetchVars, calcVars>>
    /\ UNCHANGED <<disk, fields, mainVars, dIdx, pwVars, history>>

\* validate_downloaded_file on the .tmp file: on failure it is removed and
\* the loop continues
F_Validate ==
    /\ dPc = "f_validate"
    /\ IF tmp_file[FetchUnit] = "complete"
       THEN /\ dPc' = "f_move"
            /\ UNCHANGED <<tmp_file, attempt, dIdx, download_complete,
                           shutdown_requested, failed_download>>
       ELSE /\ tmp_file' = [tmp_file EXCEPT ![FetchUnit] = "none"]
            /\ FetchRetry(FetchUnit)
    /\ UNCHANGED <<months, attempts, calcVars>>
    /\ UNCHANGED <<disk, stats, processed_months, download_queue, stats_lock,
                   mainVars, pwVars, run, applied, ckApplied, dataApplied,
                   ckAtStart, fetched, published, taken, scored, saved>>

\* safe_file_move puts the .tmp file at the final path: True is returned
F_Move ==
    /\ dPc = "f_move"
    /\ cache' = [cache EXCEPT ![FetchUnit] = Installed(tmp_file[FetchUnit])]
    /\ tmp_file' = [tmp_file EXCEPT ![FetchUnit] = "none"]
    /\ attempt' = 0 /\ attempts' = 0
    /\ dPc' = "validate"
    /\ UNCHANGED <<months, calcVars>>
    /\ UNCHANGED <<checkpoint_file, fields, mainVars, dIdx, pwVars, history>>

\* safe_file_move returns False (the .tmp file stays, the loop continues)
\* or re-raises a PermissionError (the .tmp file is removed by the except
\* clauses)
F_MoveFail ==
    /\ dPc = "f_move"
    /\ \E raised \in BOOLEAN :
          IF raised
          THEN /\ tmp_file' = [tmp_file EXCEPT ![FetchUnit] = "none"]
               /\ FetchRaise(FetchUnit)
          ELSE /\ tmp_file' = tmp_file
               /\ FetchRetry(FetchUnit)
    /\ UNCHANGED <<months, attempts, calcVars>>
    /\ UNCHANGED <<disk, stats, processed_months, download_queue, stats_lock,
                   mainVars, pwVars, run, applied, ckApplied, dataApplied,
                   ckAtStart, fetched, published, taken, scored, saved>>

\* validate_downloaded_file on the installed file, before it is queued
D_Validate ==
    /\ dPc = "validate"
    /\ IF cache[remaining_months[dIdx]] = "valid"
       THEN /\ dPc' = "put"
            /\ UNCHANGED <<dIdx, download_complete, shutdown_requested, failed_download>>
       ELSE DownloadFailed(remaining_months[dIdx])
    /\ UNCHANGED <<months, fetchVars, calcVars>>
    /\ UNCHANGED <<disk, stats, processed_months, download_queue, stats_lock,
                   mainVars, pwVars, run, applied, ckApplied,
                   dataApplied, ckAtStart, fetched, published, taken, scored, saved>>

\* a put that places the unit at the front of the queue
D_PutFront ==
    /\ dPc = "put"
    /\ Len(download_queue) < QueueMaxSize
    /\ download_queue' = <<remaining_months[dIdx]>> \o download_queue
    /\ published' = published \cup {remaining_months[dIdx]}
    /\ dIdx' = dIdx + 1
    /\ dPc' = "loop"
    /\ UNCHANGED <<months, fetchVars, calcVars>>
    /\ UNCHANGED <<disk, stats, processed_months, download_complete,
                   shutdown_requested, stats_lock, mainVars, pwVars, run,
                   applied, ckApplied, dataApplied, ckAtStart, fetched, taken,
                   failed_download, scored, saved>>

\* a put on a queue without a capacity
D_PutUnbounded ==
    /\ dPc = "put"
    /\ download_queue' = Append(download_queue, remaining_months[dIdx])
    /\ published' = published \cup {remaining_months[dIdx]}
    /\ dIdx' = dIdx + 1
    /\ dPc' = "loop"
    /\ UNCHANGED <<months, fetchVars, calcVars>>
    /\ UNCHANGED <<disk, stats, processed_months, download_complete,
                   shutdown_requested, stats_lock, mainVars, pwVars, run,
                   applied, ckApplied, dataApplied, ckAtStart, fetched, taken,
                   failed_download, scored, saved>>

\* download_queue.put: blocks while the queue is full
D_Put ==
    /\ dPc = "put"
    /\ Len(download_queue) < QueueMaxSize
    /\ download_queue' = Append(download_queue, remaining_months[dIdx])
    /\ published' = published \cup {remaining_months[dIdx]}
    /\ dIdx' = dIdx + 1
    /\ dPc' = "loop"
    /\ UNCHANGED <<months, fetchVars, calcVars>>
    /\ UNCHANGED <<disk, stats, processed_months, download_complete,
                   shutdown_requested, stats_lock, mainVars, pwVars, run,
                   applied, ckApplied, dataApplied, ckAtStart, fetched, taken,
                   failed_download, scored, saved>>

\* ------------------------------------------------------ process_worker
Bump(ap, u, i) == [ap EXCEPT ![u][i] = @ + 1]

\* download_queue.get returns a unit: process_local_file opens it
P_Get ==
    /\ pPc = "get"
    /\ download_queue # << >>
    /\ month' = Head(download_queue)
    /\ download_queue' = Tail(download_queue)
    /\ taken' = taken \cup {Head(download_queue)}
    /\ pPos' = 1
    /\ pPc' = "read"
    /\ UNCHANGED <<months, fetchVars, calcVars>>
    /\ UNCHANGED <<disk, stats, processed_months, download_complete,
                   shutdown_requested, stats_lock, mainVars, dlVars, checkpoint_data,
                   run, applied, ckApplied, dataApplied, ckAtStart, fetched,
                   published, failed_download, scored, saved>>

\* download_queue.get(timeout=30) raises queue.Empty
P_Empty ==
    /\ pPc = "get"
    /\ download_queue = << >>
    /\ pPc' = "empty"
    /\ UNCHANGED <<months, fetchVars, calcVars>>
    /\ UNCHANGED <<disk, fields, mainVars, dlVars, month, pPos, checkpoint_data,
                   history>>

\* except queue.Empty: leave the loop when download_complete is set
P_CheckComplete ==
    /\ pPc = "empty"
    /\ pPc' = IF download_complete THEN "done" ELSE "get"
    /\ UNCHANGED <<months, fetchVars, calcVars>>
    /\ UNCHANGED <<disk, fields, mainVars, dlVars, month, pPos, checkpoint_data,
                   history>>

\* process_local_file reads the next chunk: a chunk that does not decode is
\* skipped; a record goes to process_game, which takes stats_lock when it
\* has updates to apply and returns at once when it has none
P_Read ==
    /\ pPc = "read"
    /\ pPos <= UnitLen
    /\ LET item == Item(month, pPos) IN
       IF item.kind = "game" /\ PositionUpdates(item) # << >>
       THEN /\ stats_lock' = "process"
            /\ pPc' = "game"
            /\ UNCHANGED <<pPos, applied>>
       ELSE /\ pPos' = pPos + 1
            /\ applied' = IF item.kind = "game" THEN Bump(applied, month, pPos)
                          ELSE applied
            /\ UNCHANGED <<pPc, stats_lock>>
    /\ UNCHANGED <<months, fetchVars, calcVars>>
    /\ UNCHANGED <<disk, stats, processed_months, download_queue, download_complete,
                   shutdown_requested, mainVars, dlVars, month, checkpoint_data, run,
                   ckApplied, dataApplied, ckAtStart, fetched, published, taken,
                   failed_download, scored, saved>>

\* process_game: the batch is applied under stats_lock
P_ApplyGame ==
    /\ pPc = "game"
    /\ stats' = ApplyUpdates(stats, PositionUpdates(Item(month, pPos)))
    /\ applied' = Bump(applied, month, pPos)
    /\ stats_lock' = "free"
    /\ pPos' = pPos + 1
    /\ pPc' = "read"
    /\ UNCHANGED <<months, fetchVars, calcVars>>
    /\ UNCHANGED <<disk, processed_months, download_queue, download_complete,
                   shutdown_requested, mainVars, dlVars, month, checkpoint_data, run,
                   ckApplied, dataApplied, ckAtStart, fetched, published, taken,
                   failed_download, scored, saved>>

\* a process worker that gives up when process_local_file failed
P_ReadFailFatal ==
    /\ pPc = "read"
    /\ shutdown_requested' = TRUE
    /\ pPc' = "done"
    /\ pPos' = 0
    /\ UNCHANGED <<months, fetchVars, calcVars>>
    /\ UNCHANGED <<disk, stats, processed_months, download_queue, download_complete,
                   stats_lock, mainVars, dlVars, month, checkpoint_data, history>>

\* a process worker that marks the month although process_local_file failed
P_ReadFailMarked ==
    /\ pPc = "read"
    /\ processed_months' = processed_months \cup {month}
    /\ pPc' = "save"
    /\ pPos' = 0
    /\ UNCHANGED <<months, fetchVars, calcVars>>
    /\ UNCHANGED <<disk, stats, download_queue, download_complete,
                   shutdown_requested, stats_lock, mainVars, dlVars, month,
                   checkpoint_data, history>>

\* process_local_file raises (missing file, read or decompression error):
\* it returns False, the unit is not marked, the file is removed next
P_ReadFail ==
    /\ pPc = "read"
    /\ pPc' = "remove"
    /\ pPos' = 0
    /\ UNCHANGED <<months, fetchVars, calcVars>>
    /\ UNCHANGED <<disk, fields, mainVars, dlVars, month, checkpoint_data,
                   run, applied, ckApplied, dataApplied, ckAtStart, fetched,
                   published, taken, failed_download, scored, saved>>

\* end of stream: process_local_file returns True and the month is added
\* to processed_months under stats_lock
P_EndOfStream ==
    /\ pPc = "read"
    /\ pPos > UnitLen
    /\ processed_months' = processed_months \cup {month}
    /\ pPc' = "save"
    /\ pPos' = 0
    /\ UNCHANGED <<months, fetchVars, calcVars>>
    /\ UNCHANGED <<disk, stats, download_queue, download_complete,
                   shutdown_requested, stats_lock, mainVars, dlVars, month,
                   checkpoint_data, history>>

\* save_checkpoint: stats_lock taken, checkpoint_data built, the file opened
\* with mode 'w', which empties it
P_SaveOpen ==
    /\ pPc = "save"
    /\ stats_lock' = "process"
    /\ checkpoint_data' = CheckpointData(processed_months, stats)
    /\ dataApplied' = applied
    /\ checkpoint_file' = Truncated
    /\ ckApplied' = ZeroApplied
    /\ pPc' = "ck_write"
    /\ UNCHANGED <<months, fetchVars, calcVars>>
    /\ UNCHANGED <<cache, stats, processed_months, download_queue,
                   download_complete, shutdown_requested, mainVars, dlVars, month,
                   pPos, run, applied, ckAtStart, fetched, published, taken,
                   failed_download, scored, saved>>

\* save_checkpoint: mkdir or open raises; the exception is logged
P_SaveOpenFail ==
    /\ pPc = "save"
    /\ pPc' = "remove"
    /\ UNCHANGED <<months, fetchVars, calcVars>>
    /\ UNCHANGED <<disk, fields, mainVars, dlVars, month, pPos, checkpoint_data,
                   run, applied, ckApplied, dataApplied, ckAtStart, fetched,
                   published, taken, failed_download, scored, saved>>

\* save_checkpoint: json.dump has written the whole document
P_SaveWrite ==
    /\ pPc = "ck_write"
    /\ checkpoint_file' = checkpoint_data
    /\ ckApplied' = dataApplied
    /\ checkpoint_data' = NoCheckpoint
    /\ dataApplied' = ZeroApplied
    /\ stats_lock' = "free"
    /\ pPc' = "remove"
    /\ UNCHANGED <<months, fetchVars, calcVars>>
    /\ UNCHANGED <<cache, stats, processed_months, download_queue,
                   download_complete, shutdown_requested, mainVars, dlVars, month,
                   pPos, run, applied, ckAtStart,
                   fetched, published, taken, failed_download, scored, saved>>

\* save_checkpoint: json.dump raises part-way (disk full); logged
P_SaveWriteFail ==
    /\ pPc = "ck_write"
    /\ checkpoint_data' = NoCheckpoint
    /\ dataApplied' = ZeroApplied
    /\ stats_lock' = "free"
    /\ pPc' = "remove"
    /\ UNCHANGED <<months, fetchVars, calcVars>>
    /\ UNCHANGED <<disk, stats, processed_months, download_queue, download_complete,
                   shutdown_requested, mainVars, dlVars, month, pPos,
                   run, applied, ckApplied, ckAtStart,
                   fetched, published, taken, failed_download, scored, saved>>

\* safe_file_remove(temp_file) removes the file, then task_done and the
\* next get
P_Remove ==
    /\ pPc = "remove"
    /\ cache' = [cache EXCEPT ![month] = "none"]
    /\ pPc' = "get"
    /\ month' = 0
    /\ UNCHANGED <<months, fetchVars, calcVars>>
    /\ UNCHANGED <<checkpoint_file, fields, mainVars, dlVars,
                   pPos, checkpoint_data, history>>

\* safe_file_remove re-raises a PermissionError of os.remove (not on
\* Windows; the file exists): the outer except of process_worker sets
\* shutdown_requested and the worker ends
P_RemoveRaise ==
    /\ pPc = "remove"
    /\ cache[month] # "none"
    /\ shutdown_requested' = TRUE
    /\ pPc' = "done"
    /\ month' = 0
    /\ UNCHANGED <<months, fetchVars, calcVars>>
    /\ UNCHANGED <<disk, stats, processed_months, download_queue, download_complete,
                   stats_lock, mainVars, dlVars, pPos, checkpoint_data, history>>

\* ------------------------------------------------------------ the process
CompletedIn(file) == IF file.state = "full" THEN ListToSet(file.processed_months) ELSE {}

\* the process is killed, or exits after run_analysis; the next run starts
\* from a new LichessAnalyzer and what is on disk
Kill ==
    /\ run < MaxRuns
    /\ run' = run + 1
    /\ ckAtStart' = CompletedIn(checkpoint_file)
    /\ stats' = EmptyMap
    /\ processed_months' = {}
    /\ download_queue' = << >>
    /\ download_complete' = FALSE
    /\ shutdown_requested' = FALSE
    /\ stats_lock' = "free"
    /\ oPc' = "init"
    /\ remaining_months' = << >>
    /\ percentile_thresholds' = << >>
    /\ dPc' = "idle" /\ dIdx' = 0
    /\ pPc' = "idle" /\ month' = 0 /\ pPos' = 0
    /\ checkpoint_data' = NoCheckpoint
    /\ applied' = ZeroApplied
    /\ dataApplied' = ZeroApplied
    /\ fetched' = {} /\ published' = {} /\ taken' = {}
    /\ failed_download' = 0
    /\ scored' = 0 /\ saved' = 0
    /\ attempt' = 0 /\ attempts' = 0
    /\ UNCHANGED <<months, tmp_file, calcVars>>
    /\ UNCHANGED <<disk, ckApplied>>

Orchestrator ==
    \/ O_Init \/ O_Load \/ O_Start \/ O_JoinDownload \/ O_JoinProcess
    \/ O_Interrupt \/ O_GraceDownload \/ O_GraceProcess \/ O_InterruptUncaught
    \/ O_ScoreBegin \/ O_ScoreEnd \/ O_SaveBegin \/ O_SaveEnd \/ O_SaveFail
    \/ O_Finally

DownloadWorker ==
    \/ D_Loop \/ D_FetchOk \/ D_FetchFail
    \/ D_Validate \/ D_Put

ProcessWorker ==
    \/ P_Get \/ P_Empty \/ P_CheckComplete \/ P_Read \/ P_ApplyGame
    \/ P_ReadFail \/ P_EndOfStream \/ P_SaveOpen \/ P_SaveOpenFail
    \/ P_SaveWrite \/ P_SaveWriteFail \/ P_Remove \/ P_RemoveRaise

\* one run of the program: every step of the three threads
Next == Orchestrator \/ DownloadWorker \/ ProcessWorker

\* no record update on its own is under way
NoGame == [kind |-> "none"]
GameIdle == game_text = NoGame /\ position_updates = << >> /\ calls = 0
SplitIdle ==
    /\ stream = << >> /\ offset = 0 /\ game_buffer = << >> /\ handed = << >>
    /\ skipped = 0 /\ sPc = "idle"
CalcIdle == calc = EmptyMap /\ pending = << >> /\ seen = << >> /\ GameIdle /\ SplitIdle

Init == months = SetToList(Units) /\ FirstRun /\ CalcIdle

Spec == Init /\ [][Next]_vars

\* run_analysis without KeyboardInterrupt and with a writable output file
MainThread ==
    \/ O_Init \/ O_Load \/ O_Start \/ O_JoinDownload \/ O_JoinProcess
    \/ O_ScoreBegin \/ O_ScoreEnd \/ O_SaveBegin \/ O_SaveEnd \/ O_Finally

\* runs that are killed and started again; no KeyboardInterrupt and no
\* failure to write the result document
NextResume == MainThread \/ DownloadWorker \/ ProcessWorker \/ Kill

SpecResume == Init /\ [][NextResume]_vars

\* the download worker with download_file_with_retry attempt by attempt
FetchWorker ==
    \/ D_Loop \/ F_Request \/ F_RequestFail \/ F_Write \/ F_WriteFail
    \/ F_Validate \/ F_Move \/ F_MoveFail \/ F_Sleep \/ D_Validate \/ D_Put

NextFetch == MainThread \/ FetchWorker \/ ProcessWorker \/ Kill

\* killed and restarted runs, every step of every fetch
SpecFetch == Init /\ [][NextFetch]_vars

\* one run over enough months to fill the queue
NextQueue == MainThread \/ DownloadWorker \/ ProcessWorker

InitQueue == months = SetToList(QueueUnits) /\ FirstRun /\ CalcIdle

\* the cache files an earlier, killed run left in work_dir: a complete one
\* of unit 1 and a damaged one of unit 2
ValidAtStart == {1}
InvalidAtStart == {2}

InitCache ==
    /\ months = SetToList(Units)
    /\ checkpoint_file = NoCheckpoint
    /\ cache = [u \in AllUnits |-> IF u \in ValidAtStart THEN "valid"
                                    ELSE IF u \in InvalidAtStart THEN "invalid"
                                    ELSE "none"]
    /\ tmp_file = [u \in AllUnits |-> "none"]
    /\ Fresh
    /\ run = 1
    /\ ckApplied = ZeroApplied
    /\ ckAtStart = {}
    /\ CalcIdle

\* one run that starts with cache files in work_dir
SpecCache == InitCache /\ [][NextQueue]_vars

\* ---- a run that finds a checkpoint document it did not write itself
\* the documents the run may find: the one a run that processed unit 1
\* saved, the same with the record of one position replaced by one that
\* cannot be restored, an incomplete one, none
LoadInputs ==
    LET SavedAfterFirst == CheckpointData({1}, ProcessItems(ZeroMap, 1, 1))
        Damaged(f) == [SavedAfterFirst EXCEPT !.stats[f] = Unrestorable]
    IN  {SavedAfterFirst, Damaged("A"), Damaged("B"), Truncated, NoCheckpoint}

InitLoad ==
    /\ months = SetToList(Units)
    /\ checkpoint_file \in LoadInputs
    /\ cache = [u \in AllUnits |-> "none"]
    /\ tmp_file = [u \in AllUnits |-> "none"]
    /\ Fresh
    /\ run = 1
    /\ ckApplied = IF checkpoint_file.state = "full"
                   THEN [u \in AllUnits |->
                           [i \in 1..UnitLen |-> IF u = 1 /\ Item(u, i).kind = "game" THEN 1 ELSE 0]]
                   ELSE ZeroApplied
    /\ ckAtStart = CompletedIn(checkpoint_file)
    /\ CalcIdle

\* one run that starts from one of these documents
SpecLoad == InitLoad /\ [][NextQueue]_vars

\* ---- the update of process_game on its own
\* the updates process_game can collect for position "A"
Ratings == {Norm(1500 + 1600, 2), Norm(1400 + 1451, 2), Norm(1800 + 1820, 2)}
Results == {"1-0", "0-1", "1/2-1/2", "*"}
Updates == [fen : {"A"}, rating : Ratings, result : Results]

InitStats ==
    /\ months = << >>
    /\ FirstRun
    /\ calc = ZeroMap
    /\ pending \in UNION {[1..n -> Updates] : n \in 0..MaxLen}
    /\ seen = << >>
    /\ GameIdle /\ SplitIdle

\* one call of process_game applies the next updates as one batch
C_Apply ==
    /\ pending # << >>
    /\ \E k \in 1..Len(pending) :
          /\ calc' = ApplyUpdates(calc, SubSeq(pending, 1, k))
          /\ seen' = seen \o SubSeq(pending, 1, k)
          /\ pending' = SubSeq(pending, k + 1, Len(pending))
    /\ UNCHANGED <<game_text, position_updates, calls, splitVars>>
    /\ UNCHANGED <<months, disk, fields, mainVars, dlVars, pwVars, history, fetchVars>>

SpecStats == InitStats /\ [][C_Apply]_vars

\* ---- calculate_popularity_scores on its own
\* the position keys of a statistics map of n positions
Keys(n) == {ToString(k) : k \in 1..n}

\* the record of a position seen in c games, before the scoring
Counted(c) == [PopularityStats EXCEPT !.games_analyzed = c, !.frequency_count = c]

\* counts on both sides of every step of the confidence ladder
CountValues == {0, 1, 9, 10, 99, 100, 999, 1000}

\* the statistics maps the scoring is applied to: every map of SmallKeys
\* positions with counts of CountValues, and for every n up to MaxKeys the
\* map of n positions where the k-th one was seen in k games
ScoreInputs ==
    {[f \in Keys(SmallKeys) |-> Counted(c[f])] : c \in [Keys(SmallKeys) -> CountValues]}
    \cup {[f \in Keys(n) |-> Counted(CHOOSE k \in 1..n : ToString(k) = f)] : n \in 1..MaxKeys}

\* the workers have ended, run_analysis is about to call
\* calculate_popularity_scores
InitScore ==
    /\ months = << >>
    /\ checkpoint_file = NoCheckpoint
    /\ cache = [u \in AllUnits |-> "none"]
    /\ tmp_file = [u \in AllUnits |-> "none"]
    /\ stats \in ScoreInputs
    /\ processed_months = {}
    /\ download_queue = << >>
    /\ download_complete = TRUE
    /\ shutdown_requested = FALSE
    /\ stats_lock = "free"
    /\ oPc = "score"
    /\ remaining_months = << >>
    /\ percentile_thresholds = << >>
    /\ dPc = "done" /\ dIdx = 0 /\ attempt = 0 /\ attempts = 0
    /\ pPc = "done" /\ month = 0 /\ pPos = 0
    /\ checkpoint_data = NoCheckpoint
    /\ run = 1
    /\ applied = ZeroApplied /\ ckApplied = ZeroApplied /\ dataApplied = ZeroApplied
    /\ ckAtStart = {}
    /\ fetched = {} /\ published = {} /\ taken = {}
    /\ failed_download = 0
    /\ scored = 0 /\ saved = 0
    /\ CalcIdle

NextScore == O_ScoreBegin \/ O_ScoreEnd

SpecScore == InitScore /\ [][NextScore]_vars

\* ---- process_game on its own
\* what the rating header of a record can hold
EloValues == {Elo(1500), Elo(0), Unparsable, Missing}

\* a short record for every pair of rating headers
RatedInputs ==
    {[kind |-> "game", WhiteElo |-> w, BlackElo |-> b, Result |-> "1-0",
      fens |-> <<"A", "B">>, final |-> "A"] : w, b \in EloValues}

\* the positions of a game of m moves: "A" before the first move, "B"
\* from the position before move MaxMoves * 2 on, also after the last move
Line(m) ==
    [k \in 1..m |-> IF k = 1 THEN "A" ELSE IF k >= MaxMoves * 2 THEN "B" ELSE "X"]

\* a rated record for every number of moves up to MaxPlies
LongInputs ==
    {[kind |-> "game", WhiteElo |-> Elo(1500), BlackElo |-> Elo(1600),
      Result |-> "0-1", fens |-> Line(m), final |-> "B"] : m \in 0..MaxPlies}

GameInputs == RatedInputs \cup LongInputs

InitGame ==
    /\ months = << >>
    /\ FirstRun
    /\ calc = ZeroMap
    /\ pending = << >> /\ seen = << >>
    /\ GameIdle /\ SplitIdle

\* one call of process_game, from the parse of the record to the end of
\* the locked batch
G_Process ==
    /\ calls < MaxLen
    /\ \E record \in GameInputs :
          /\ game_text' = record
          /\ position_updates' = PositionUpdates(record)
          /\ calc' = ApplyUpdates(calc, position_updates')
    /\ calls' = calls + 1
    /\ UNCHANGED <<pending, seen, splitVars>>
    /\ UNCHANGED <<months, disk, fields, mainVars, dlVars, pwVars, history, fetchVars>>

SpecGame == InitGame /\ [][G_Process]_vars

\* ---- the chunk loop of process_local_file on its own
\* a byte of the stream: "a" is a byte of game text, "n" a newline, "x" a
\* byte that is no UTF-8
Bytes == {"a", "n", "x"}

\* the boundary between two records: '\n\n\n'
Marker == <<"n", "n", "n">>

\* the place of the leftmost Marker in str, 0 when it has none
Find(str) ==
    LET at == {i \in 1..(Len(str) - 2) : SubSeq(str, i, i + 2) = Marker}
    IN  IF at = {} THEN 0 ELSE CHOOSE i \in at : \A j \in at : i <= j

\* not str.strip()
Blank(str) == \A k \in DOMAIN str : str[k] = "n"

\* chunk.decode('utf-8') raises
Undecodable(chunk) == \E k \in DOMAIN chunk : chunk[k] = "x"

\* a decode that drops the bytes that are no UTF-8
DecodedLossy(buffer, chunk) == buffer \o SelectSeq(chunk, LAMBDA c : c # "x")

\* game_buffer after `game_buffer += chunk.decode('utf-8')`, or as it was
\* when the decode raised
Decoded(buffer, chunk) == IF Undecodable(chunk) THEN buffer ELSE buffer \o chunk

\* a loop that splits off one record per chunk
SplitBufferOnce(buffer) ==
    IF Find(buffer) = 0 THEN [games |-> << >>, rest |-> buffer]
    ELSE LET game == SubSeq(buffer, 1, Find(buffer) - 1) IN
         [games |-> IF Blank(game) THEN << >> ELSE <<game>>,
          rest |-> SubSeq(buffer, Find(buffer) + 3, Len(buffer))]

\* the while loop over game_buffer: the records split off, in order, and
\* what stays in the buffer
RECURSIVE SplitBuffer(_)
SplitBuffer(buffer) ==
    IF Find(buffer) = 0 THEN [games |-> << >>, rest |-> buffer]
    ELSE LET game == SubSeq(buffer, 1, Find(buffer) - 1)
             more == SplitBuffer(SubSeq(buffer, Find(buffer) + 3, Len(buffer)))
         IN  [games |-> (IF Blank(game) THEN << >> ELSE <<game>>) \o more.games,
              rest |-> more.rest]

InitSplit ==
    /\ months = << >>
    /\ FirstRun
    /\ calc = EmptyMap /\ pending = << >> /\ seen = << >> /\ GameIdle
    /\ stream \in UNION {[1..n -> Bytes] : n \in 0..MaxText}
    /\ offset = 0 /\ game_buffer = << >> /\ handed = << >>
    /\ skipped = 0
    /\ sPc = "reading"

\* reader.read returns a chunk of some length; it is decoded, added to
\* game_buffer and the complete records are split off, or the decode
\* raises and the loop continues with the next chunk
S_Read ==
    /\ sPc = "reading"
    /\ offset < Len(stream)
    /\ \E size \in 1..(Len(stream) - offset) :
          LET chunk == SubSeq(stream, offset + 1, offset + size) IN
          /\ offset' = offset + size
          /\ IF Undecodable(chunk)
             THEN /\ skipped' = skipped + 1
                  /\ game_buffer' = Decoded(game_buffer, chunk)
                  /\ UNCHANGED handed
             ELSE LET split == SplitBuffer(Decoded(game_buffer, chunk)) IN
                  /\ handed' = handed \o split.games
                  /\ game_buffer' = split.rest
                  /\ UNCHANGED skipped
    /\ UNCHANGED <<stream, sPc>>
    /\ UNCHANGED <<calc, pending, seen, game_text, position_updates, calls>>
    /\ UNCHANGED <<months, disk, fields, mainVars, dlVars, pwVars, history, fetchVars>>

\* reader.read raises: process_local_file returns False
S_ReadError ==
    /\ sPc = "reading"
    /\ offset < Len(stream)
    /\ sPc' = "failed"
    /\ UNCHANGED <<stream, offset, game_buffer, handed, skipped>>
    /\ UNCHANGED <<calc, pending, seen, game_text, position_updates, calls>>
    /\ UNCHANGED <<months, disk, fields, mainVars, dlVars, pwVars, history, fetchVars>>

\* reader.read returns nothing: what is left in game_buffer is the last
\* record, process_local_file returns True
S_End ==
    /\ sPc = "reading"
    /\ offset = Len(stream)
    /\ handed' = handed \o (IF Blank(game_buffer) THEN << >> ELSE <<game_buffer>>)
    /\ game_buffer' = << >>
    /\ sPc' = "returned"
    /\ UNCHANGED <<stream, offset, skipped>>
    /\ UNCHANGED <<calc, pending, seen, game_text, position_updates, calls>>
    /\ UNCHANGED <<months, disk, fields, mainVars, dlVars, pwVars, history, fetchVars>>

NextSplit == S_Read \/ S_ReadError \/ S_End

SpecSplit == InitSplit /\ [][NextSplit]_vars

\* every thread that can take a step eventually takes one
SpecQueue ==
    /\ InitQueue /\ [][NextQueue]_vars
    /\ WF_vars(MainThread) /\ WF_vars(DownloadWorker) /\ WF_vars(ProcessWorker)

\* ------------------------------------------------------------- properties
\* the sum of term[x] over the set S
RECURSIVE Sum(_, _)
Sum(S, term) ==
    IF S = {} THEN 0
    ELSE LET x == CHOOSE y \in S : TRUE IN term[x] + Sum(S \ {x}, term)

\* the chunks of the months of the run
Chunks == ListToSet(months) \X (1..UnitLen)

IsGame(u, i) == Item(u, i).kind = "game"

\* how often the record at chunk i of unit u updates position f
Hits(u, i, f) ==
    IF IsGame(u, i)
    THEN LET ups == PositionUpdates(Item(u, i))
         IN  Cardinality({k \in DOMAIN ups : ups[k].fen = f})
    ELSE 0

\* games_analyzed of position f when every record is counted ap[u][i] times
Expected(ap, f) == Sum(Chunks, [c \in Chunks |-> ap[c[1]][c[2]] * Hits(c[1], c[2], f)])

\* every record of every unit of S counted once, nothing else counted
OnceEach(S) ==
    [u \in AllUnits |-> [i \in 1..UnitLen |-> IF u \in S /\ IsGame(u, i) THEN 1 ELSE 0]]

\* the per-position counts of a statistics record
CountFields(s) == <<s.games_analyzed, s.white_wins, s.black_wins, s.draws, s.avg_rating>>

\* the statistics of one uninterrupted run over U1 then U2
Uninterrupted(U1, U2) == ProcessItems(ProcessItems(ZeroMap, U1, 1), U2, 1)

\* C1: in every persisted checkpoint the statistics hold exactly what the
\* history says went into them, and every game of every unit of its
\* completed set is among it; a unit is in processed_months only when every
\* one of its games has been through process_game
ResumabilityInvariant ==
    /\ checkpoint_file.state = "full" =>
         /\ \A f \in DOMAIN checkpoint_file.stats :
               checkpoint_file.stats[f].games_analyzed = Expected(ckApplied, f)
         /\ \A u \in CompletedIn(checkpoint_file) : \A i \in 1..UnitLen :
               IsGame(u, i) => ckApplied[u][i] >= 1
    /\ \A u \in processed_months : \A i \in 1..UnitLen :
          IsGame(u, i) => applied[u][i] >= 1

\* C1: a second run has written a checkpoint that lists every unit
ResumabilityWitness ==
    /\ run = 2
    /\ checkpoint_file.state = "full"
    /\ CompletedIn(checkpoint_file) = Units
    /\ ckAtStart = {1}

\* C2: in every persisted checkpoint each game is counted at most once, and
\* games of units outside its completed set are not counted at all
NoDoubleCounting ==
    checkpoint_file.state = "full" =>
        \A u \in AllUnits : \A i \in 1..UnitLen :
            /\ ckApplied[u][i] <= 1
            /\ u \notin CompletedIn(checkpoint_file) => ckApplied[u][i] = 0

\* C3: a unit of the completed set of the checkpoint the run started from is
\* not in remaining_months, is never fetched, queued or dequeued, and its
\* games are not counted again after the checkpoint is loaded
IdempotentResume ==
    /\ [](\A U \in ckAtStart :
            /\ U \notin (fetched \cup published \cup taken)
            /\ oPc \notin {"init", "load"} => U \notin ListToSet(remaining_months))
    /\ [][\A U \in ckAtStart :
            (oPc \notin {"init", "load"} /\ run' = run) => applied'[U] = applied[U]]_vars

\* C3: a run that started from a checkpoint listing unit 1 processed unit 2
\* and returned
IdempotentWitness ==
    /\ run = 2 /\ ckAtStart = {1}
    /\ 2 \in taken /\ processed_months = {1, 2}
    /\ oPc = "returned"

\* C4: a run restarted from a checkpoint that holds U1 and nothing of U2,
\* having processed U2, has the per-position counts of one run over U1, U2
CrashRestartEquivalence ==
    \A U1, U2 \in Units :
        ( /\ U1 # U2
          /\ run > 1 /\ ckAtStart = {U1}
          /\ processed_months = {U1, U2}
          /\ applied = OnceEach({U1, U2}) )
        => \A f \in target_fens :
              CountFields(stats[f]) = CountFields(Uninterrupted(U1, U2)[f])

\* C4: the restarted run has finished U2 after a first run that finished U1
CrashRestartWitness ==
    /\ run = 2 /\ ckAtStart = {1}
    /\ processed_months = {1, 2}
    /\ applied = OnceEach({1, 2})
    /\ pPc = "done"

\* C5: the document at the checkpoint path is never empty or half-written
CheckpointAtomic == checkpoint_file.state # "partial"

\* the units that come after unit k in remaining_months
UnitsAfter(k) ==
    {remaining_months[j] : j \in {i \in DOMAIN remaining_months :
        \E h \in DOMAIN remaining_months : remaining_months[h] = k /\ h < i}}

\* C6: once the download of unit k has failed for good, shutdown_requested
\* is set and no unit after k in remaining_months is fetched or queued
DownloadFailureFatal ==
    failed_download # 0 =>
        /\ shutdown_requested
        /\ UnitsAfter(failed_download) \cap (fetched \cup published) = {}

\* C6: the download of unit 1 failed, unit 2 was still to come, and the run
\* went on to its end
DownloadFailureWitness ==
    /\ failed_download = 1
    /\ 2 \in UnitsAfter(1)
    /\ dPc = "done" /\ pPc = "done"
    /\ oPc = "returned"

\* C7: while shutdown_requested is set the download worker starts no fetch
\* and no reuse of a file, and the process worker dequeues no unit
CooperativeCancellation ==
    [][shutdown_requested =>
          /\ ~(dPc = "loop" /\ dPc' \in {"fetch", "put"})
          /\ taken' = taken]_vars

\* C8: while calculate_popularity_scores or save_final_results works on
\* stats, the process worker has ended or was never started
ScoringExclusive ==
    oPc \in {"scoring", "saving"} => pPc \in {"idle", "done"}

\* C9: both workers end
WorkersTerminate == <>(dPc = "done" /\ pPc = "done")

\* C10: when run_analysis has been left, by return or by an exception, the
\* scores have been calculated once and the result document written once
FinalizationOnce ==
    oPc \in {"returned", "raised"} => scored = 1 /\ saved = 1

\* the place of unit u in remaining_months, 0 when it is not there
Pos(u) ==
    IF \E j \in DOMAIN remaining_months : remaining_months[j] = u
    THEN CHOOSE j \in DOMAIN remaining_months : remaining_months[j] = u
    ELSE 0

\* C11: every unit the process worker takes was published, was not taken
\* before, and comes later in remaining_months than every unit taken before
\* it; the queue holds published units in the order of remaining_months
FifoOrder ==
    /\ [](\A j, k \in DOMAIN download_queue :
             j < k => 0 < Pos(download_queue[j]) /\ Pos(download_queue[j]) < Pos(download_queue[k]))
    /\ [][(pPc = "get" /\ pPc' = "read") =>
             /\ month' \in published
             /\ month' \notin taken
             /\ \A u \in taken : 0 < Pos(u) /\ Pos(u) < Pos(month')
             /\ \A u \in published \ taken : Pos(month') <= Pos(u)]_vars

\* C11: both units were in the queue together and the second one has been
\* taken after the first
FifoWitness ==
    /\ taken = {1, 2} /\ month = 2
    /\ published = {1, 2}
    /\ dPc = "done"

\* the units downloaded and not yet taken by the process worker
Unprocessed == {u \in AllUnits : cache[u] = "valid" /\ u \notin taken}

\* C12: download_queue never holds more than QueueMaxSize units, a put is
\* not enabled while it is full, and at most QueueMaxSize + 1 downloaded
\* units wait for the process worker
BackpressureBound ==
    /\ Len(download_queue) <= QueueMaxSize
    /\ Len(download_queue) = QueueMaxSize => ~ENABLED D_Put
    /\ Cardinality(Unprocessed) <= QueueMaxSize + 1

\* C12: the queue is full and the download worker holds one more unit
BackpressureWitness ==
    /\ Len(download_queue) = QueueMaxSize
    /\ dPc = "put"
    /\ Cardinality(Unprocessed) = QueueMaxSize + 1

\* C13: a file at a final cache path is complete and validated, never
\* partial or invalid, and a final path receives a file only by the move of
\* the .tmp file of the unit being fetched, right after that file passed
\* validation; the bytes of a transfer go to the .tmp path only
AtomicCacheInstall ==
    /\ [](\A u \in AllUnits : cache[u] \in {"none", "valid"})
    /\ [][\A u \in AllUnits :
            (cache'[u] # cache[u] /\ cache'[u] # "none") =>
                /\ dPc = "f_move" /\ u = FetchUnit
                /\ tmp_file[u] = "complete"
                /\ cache'[u] = "valid" /\ tmp_file'[u] = "none"]_vars

\* C13: a run was killed while it wrote a .tmp file; the next run finds the
\* partial .tmp file and no file at the final path of that unit
AtomicInstallWitness ==
    /\ run = 2 /\ oPc = "init"
    /\ tmp_file[2] = "partial" /\ cache[2] = "none"
    /\ 1 \in CompletedIn(checkpoint_file)

\* C15: download_file_with_retry makes at most MaxRetries requests; it
\* returns True only from the move of a validated .tmp file, which is then
\* at the final path; it returns False only after MaxRetries requests, and
\* after the failure of the last attempt it always returns False
BoundedRetries ==
    /\ [](attempts <= MaxRetries /\ attempt < MaxRetries)
    /\ [][(dPc \in FetchStates /\ dPc' = "validate") =>
             /\ dPc = "f_move" /\ tmp_file[FetchUnit] = "complete"
             /\ cache'[FetchUnit] = "valid"]_vars
    /\ [][(dPc \in FetchStates /\ dPc' = "done") =>
             /\ attempts' = MaxRetries
             /\ cache'[FetchUnit] # "valid"]_vars
    /\ [][~( /\ dPc \in FetchStates /\ dPc' = "fetch"
             /\ attempts' = MaxRetries
             /\ (dPc # "fetch" \/ attempts' # attempts) )]_vars

\* C15: the third attempt for unit 1 failed and the download worker ended
BoundedRetriesWitness ==
    /\ failed_download = 1 /\ attempts = MaxRetries
    /\ dPc = "done" /\ 1 \in fetched
    /\ cache[1] = "none"

\* C14: a remaining unit whose cache file is valid when the run starts is
\* published without any fetch; one whose cache file is invalid is fetched
\* before it is published
CacheReuse ==
    /\ \A u \in ValidAtStart : u \notin fetched
    /\ \A u \in InvalidAtStart : u \in published => u \in fetched

CheckpointFresh ==
    (pPc \in {"idle", "get", "empty", "done"} /\ oPc \notin {"init", "load"}) =>
        IF checkpoint_file.state = "full"
        THEN /\ processed_months = CompletedIn(checkpoint_file)
             /\ \A f \in DOMAIN stats :
                   CountFields(stats[f]) = CountFields(FromDict(checkpoint_file.stats[f]))
        ELSE /\ processed_months = {}
             /\ \A f \in DOMAIN stats :
                   CountFields(stats[f]) = CountFields(PopularityStats)

\* C18: once run_analysis has returned, work_dir holds no cache file and no
\* .tmp file of any unit, then and ever after
CleanOnExit ==
    oPc = "returned" =>
        \A u \in AllUnits : cache[u] = "none" /\ tmp_file[u] = "none"

\* twice the sum of the ratings of a sequence of updates
RECURSIVE TwiceSum(_)
TwiceSum(ups) ==
    IF ups = << >> THEN 0
    ELSE Head(ups).rating[1] * (2 \div Head(ups).rating[2]) + TwiceSum(Tail(ups))

\* the sequence ups in the order perm
Permuted(ups, perm) == [k \in DOMAIN ups |-> ups[perm[k]]]

\* C19: after any updates of a key, applied in any batches, avg_rating is
\* the sum of their ratings divided by games_analyzed, and it is what every
\* reordering of the updates, applied as one batch, gives
RunningMean ==
    LET n == Len(seen) IN
    /\ calc["A"].games_analyzed = n
    /\ calc["A"].avg_rating = IF n = 0 THEN None ELSE Norm(TwiceSum(seen), 2 * n)
    /\ \A perm \in Permutations(DOMAIN seen) :
          ApplyUpdates(ZeroMap, Permuted(seen, perm))["A"].avg_rating = calc["A"].avg_rating

\* C19: three updates with different ratings have been applied
RunningMeanWitness ==
    /\ Len(seen) = 3 /\ pending = << >>
    /\ seen[1].rating # seen[2].rating /\ seen[2].rating # seen[3].rating
    /\ calc["A"].avg_rating[2] = 3

\* C20: every record has non-negative counts, at most games_analyzed
\* decided results, and frequency_count equal to games_analyzed
CountInvariant ==
    \A st \in {stats, calc} : \A f \in DOMAIN st :
        /\ st[f].white_wins >= 0 /\ st[f].black_wins >= 0
        /\ st[f].draws >= 0 /\ st[f].games_analyzed >= 0
        /\ st[f].white_wins + st[f].black_wins + st[f].draws <= st[f].games_analyzed
        /\ st[f].frequency_count = st[f].games_analyzed

\* C20: a game without a decided result has been counted
CountWitness ==
    /\ calc["A"].games_analyzed = 2
    /\ calc["A"].white_wins + calc["A"].black_wins + calc["A"].draws = 1
    /\ \E k \in DOMAIN seen : seen[k].result = "*"

\* the updates a batch could hold for the position "X" outside target_fens
Outside == [fen : {"X"}, rating : Ratings, result : Results]

\* C21: from load_target_fens on the keys of stats are target_fens; no step
\* of a run changes the key set; the batch of a record changes only records
\* of keys of target_fens that the record visits; and an update for a key
\* outside target_fens leaves the whole map as it is
FixedUniverse ==
    /\ [](oPc # "init" => DOMAIN stats = target_fens)
    /\ [](\A up \in Outside : ApplyUpdates(stats, <<up>>) = stats)
    /\ [][(oPc # "init" /\ run' = run) => DOMAIN stats' = DOMAIN stats]_vars
    /\ [][(pPc = "game" /\ pPc' = "read") =>
             \A f \in DOMAIN stats' :
                 stats'[f] # stats[f] =>
                     f \in target_fens \cap ListToSet(Item(month, pPos).fens)]_vars

\* C21: the record of unit 1 that visits "A" and then "X" has been applied
FixedUniverseWitness ==
    /\ "X" \in ListToSet(Item(1, 1).fens)
    /\ applied[1][1] = 1 /\ month = 1 /\ pPos = 2
    /\ stats["A"].games_analyzed = 1
    /\ "X" \notin DOMAIN stats

\* C22: the step that ends calculate_popularity_scores leaves every key
\* with no game at score 0 and every other key at
\* min(10, 1 + the number of thresholds below its count), which is in 1..10
\* and is the index of the first threshold that is not below its count
ScoreRule ==
    [][(oPc \in {"score", "scoring"} /\ oPc' = "save") =>
          \A f \in DOMAIN stats' :
              LET games == stats'[f].games_analyzed
                  score == stats'[f].popularity_score
              IN  IF games = 0 THEN score = 0
                  ELSE /\ oPc = "scoring"
                       /\ score = Min(10, 1 + Cardinality(
                              {i \in 1..10 : percentile_thresholds[i] < games}))
                       /\ score \in 1..10
                       /\ percentile_thresholds[score] >= games
                       /\ \A i \in 1..(score - 1) : percentile_thresholds[i] < games]_vars

\* C22: scored: a position without games at 0, one whose count is the value
\* of the first nine thresholds at 1, and one above them at 10
ScoreRuleWitness ==
    /\ oPc = "save" /\ scored = 1
    /\ DOMAIN stats = Keys(3)
    /\ \E f, g, h \in DOMAIN stats :
          /\ stats[f].games_analyzed = 0 /\ stats[f].popularity_score = 0
          /\ stats[g].games_analyzed = 10 /\ stats[g].popularity_score = 1
          /\ stats[h].games_analyzed = 100 /\ stats[h].popularity_score = 10

\* C23: after calculate_popularity_scores a key with no more games than
\* another has no higher popularity_score
ScoreMonotone ==
    oPc = "save" =>
        \A a, b \in DOMAIN stats :
            stats[a].games_analyzed <= stats[b].games_analyzed
                => stats[a].popularity_score <= stats[b].popularity_score

\* C23: scored positions with no, few and many games and rising scores
ScoreMonotoneWitness ==
    /\ oPc = "save" /\ scored = 1
    /\ \E a, b, c \in DOMAIN stats :
          /\ stats[a].games_analyzed = 0
          /\ stats[b].games_analyzed = 9 /\ stats[c].games_analyzed = 1000
          /\ stats[a].popularity_score < stats[b].popularity_score
          /\ stats[b].popularity_score < stats[c].popularity_score

\* the confidence of the ladder, in tenths
Ladder(games) ==
    CASE games = 0 -> 0
      [] 1 <= games /\ games < 10 -> 4
      [] 10 <= games /\ games < 100 -> 6
      [] 100 <= games /\ games < 1000 -> 8
      [] games >= 1000 -> 10

\* C24: after calculate_popularity_scores the confidence_score of every key
\* is the step of the ladder its games_analyzed stands on
ConfidenceLadder ==
    oPc = "save" =>
        \A f \in DOMAIN stats :
            stats[f].confidence_score = Ladder(stats[f].games_analyzed)

\* C24: scored positions on the last game of one step and on the first of
\* the next, at the top of the ladder
ConfidenceWitness ==
    /\ oPc = "save" /\ scored = 1
    /\ \E a, b, c \in DOMAIN stats :
          /\ stats[a].games_analyzed = 999 /\ stats[a].confidence_score = 8
          /\ stats[b].games_analyzed = 1000 /\ stats[b].confidence_score = 10
          /\ stats[c].games_analyzed = 0 /\ stats[c].confidence_score = 0

\* v kept within lo..hi
Clamp(v, lo, hi) == Max(lo, Min(v, hi))

\* C29: the thresholds calculate_popularity_scores works with are, for i in
\* 1..10, the entry of the sorted positive counts at the 0-based place
\* clamp(floor(i * n / 10) - 1, 0, n - 1); they do not fall as i grows, and
\* the 10th is the largest count
DecileThresholds ==
    oPc = "scoring" =>
        LET sorted == GameCounts(stats)
            n == Len(sorted)
        IN  /\ n >= 1
            /\ \A i \in 1..10 :
                  percentile_thresholds[i] = sorted[Clamp(((i * n) \div 10) - 1, 0, n - 1) + 1]
            /\ \A i \in 1..9 : percentile_thresholds[i] <= percentile_thresholds[i + 1]
            /\ percentile_thresholds[10] = sorted[n]

\* a rating header that is missing, is no number, or is zero
Unrated(value) == value = Missing \/ value[1] = "str" \/ value = Elo(0)

\* C25: a call of process_game on a record with a missing, unparsable or
\* zero rating of either player collects no update and leaves every record
\* of the statistics map as it was
RatinglessDiscarded ==
    [][(calls' = calls + 1 /\ (Unrated(game_text'.WhiteElo) \/ Unrated(game_text'.BlackElo)))
          => (calc' = calc /\ position_updates' = << >>)]_vars

\* C25: after a rated record, a record without the rating of White (and
\* with that of Black) went through process_game and changed nothing
RatinglessWitness ==
    /\ calls = 2
    /\ game_text.WhiteElo = Missing /\ game_text.BlackElo = Elo(1500)
    /\ position_updates = << >>
    /\ calc["A"].games_analyzed = 1 /\ calc["B"].games_analyzed = 1

\* the moves of the record that process_game replays
Replayed(record) == 1..Min(Len(record.fens), 70)

\* C30: a call of process_game on a rated record of m moves collects one
\* update for every position before one of the moves 1..min(m, 70) whose
\* key is in target_fens, in the order of the moves, and nothing for the
\* position after the last move or for any position from move 71 on
PlyCap ==
    [][(calls' = calls + 1
          /\ ~Unrated(game_text'.WhiteElo) /\ ~Unrated(game_text'.BlackElo))
          => LET record == game_text'
                 examined == {k \in Replayed(record) : record.fens[k] \in target_fens}
             IN  /\ Len(position_updates') = Cardinality(examined)
                 /\ \A j \in DOMAIN position_updates' :
                       \E k \in examined :
                           /\ position_updates'[j].fen = record.fens[k]
                           /\ Cardinality({h \in examined : h <= k}) = j
                 /\ \A f \in target_fens :
                       calc'[f].games_analyzed - calc[f].games_analyzed
                           = Cardinality({k \in Replayed(record) : record.fens[k] = f})]_vars

\* C30: a record of 72 moves with tracked positions before moves 1, 70, 71
\* and 72 and after the last move gave the updates of moves 1 and 70
PlyCapWitness ==
    /\ calls = 1
    /\ Len(game_text.fens) = 72
    /\ game_text.fens[71] \in target_fens /\ game_text.final \in target_fens
    /\ Len(position_updates) = 2
    /\ position_updates[1].fen = "A" /\ position_updates[2].fen = "B"
    /\ calc["A"].games_analyzed = 1 /\ calc["B"].games_analyzed = 1

\* C26: download_file_with_retry goes on to its next attempt only from
\* time.sleep(30), whatever made the attempt before it fail
BackoffBetweenAttempts ==
    [][attempt' = attempt + 1 => dPc = "f_sleep"]_vars

\* C27: a thread that holds stats_lock is inside the batched update of
\* process_game and nowhere else, and no step it takes while it holds the
\* lock opens, writes or closes the checkpoint file
LockFreeOfIO ==
    /\ [](stats_lock = "process" => pPc = "game")
    /\ [][(stats_lock = "process" /\ pPc' # pPc) =>
             checkpoint_file' = checkpoint_file]_vars

\* C28: when the process worker leaves its loop because download_complete
\* is set, download_queue is empty and every published unit has been taken
NoUnitAbandoned ==
    [][(pPc = "empty" /\ pPc' = "done") =>
          (download_queue' = << >> /\ published' \subseteq taken')]_vars

\* the number of updates of a sequence with the result token
Tokens(ups, token) == Cardinality({k \in DOMAIN ups : ups[k].result = token})

\* the win and draw counts of a record
Buckets(s) == <<s.white_wins, s.black_wins, s.draws>>

\* C31: an update with result 1-0, 0-1 or 1/2-1/2 adds 1 to white_wins,
\* black_wins or draws and leaves the other two; an update with another
\* token adds 1 to games_analyzed and frequency_count and leaves all three;
\* so each bucket counts the applied updates with its token
ResultBuckets ==
    LET s == calc["A"]
        after(token) == UpdateStats(s, CHOOSE r \in Ratings : TRUE, token)
    IN  /\ Buckets(after("1-0")) = <<s.white_wins + 1, s.black_wins, s.draws>>
        /\ Buckets(after("0-1")) = <<s.white_wins, s.black_wins + 1, s.draws>>
        /\ Buckets(after("1/2-1/2")) = <<s.white_wins, s.black_wins, s.draws + 1>>
        /\ \A token \in {"*", "", "1/2", "abandoned"} :
              /\ Buckets(after(token)) = Buckets(s)
              /\ after(token).games_analyzed = s.games_analyzed + 1
              /\ after(token).frequency_count = s.frequency_count + 1
        /\ Buckets(s) = <<Tokens(seen, "1-0"), Tokens(seen, "0-1"), Tokens(seen, "1/2-1/2")>>
        /\ s.games_analyzed = Len(seen) /\ s.frequency_count = Len(seen)

\* C31: a win of White, a draw and an unfinished game have been applied
ResultBucketsWitness ==
    /\ Len(seen) = 3 /\ pending = << >>
    /\ {seen[k].result : k \in DOMAIN seen} = {"1-0", "1/2-1/2", "*"}
    /\ Buckets(calc["A"]) = <<1, 0, 1>>
    /\ calc["A"].games_analyzed = 3

\* the non-blank pieces of a text split again and again at its leftmost
\* boundary marker, what is left after the last marker included
RECURSIVE Pieces(_)
Pieces(str) ==
    LET at == {i \in 1..(Len(str) - 2) :
                  str[i] = "n" /\ str[i + 1] = "n" /\ str[i + 2] = "n"}
        keep(piece) == IF \E k \in DOMAIN piece : piece[k] # "n" THEN <<piece>> ELSE << >>
    IN  IF at = {} THEN keep(str)
        ELSE LET i == CHOOSE j \in at : \A h \in at : j <= h IN
             keep(SubSeq(str, 1, i - 1)) \o Pieces(SubSeq(str, i + 3, Len(str)))

\* C32: when process_local_file has read a stream without a decode error
\* to its end, in whatever chunks, the records it handed to process_game
\* are the non-blank pieces of the whole text, in order, each once
SplittingChunkIndependent ==
    (sPc = "returned" /\ ~Undecodable(stream)) => handed = Pieces(stream)

\* C32: a stream of a record, a marker and a last record without a marker
\* after it was read to its end and both records were handed over
SplittingWitness ==
    /\ sPc = "returned"
    /\ stream = <<"a", "n", "n", "n", "a", "n", "n">>
    /\ handed = << <<"a">>, <<"a", "n", "n">> >>

\* C33: the step that reads a chunk which does not decode leaves
\* game_buffer and the records handed over as they were, stays in the chunk
\* loop and does not touch shutdown_requested; and a stream read to its end
\* makes process_local_file return True, whatever was skipped
DecodeErrorsAbsorbed ==
    /\ [][(sPc = "reading" /\ offset' > offset
              /\ Undecodable(SubSeq(stream, offset + 1, offset'))) =>
             /\ game_buffer' = game_buffer
             /\ handed' = handed
             /\ sPc' = "reading"
             /\ shutdown_requested' = shutdown_requested]_vars
    /\ [][(sPc = "reading" /\ offset = Len(stream) /\ sPc' # "reading") =>
             sPc' = "returned"]_vars
    /\ []((sPc = "reading" /\ offset = Len(stream)) => ENABLED S_End)

\* C33: a chunk between two records did not decode; the record before it
\* and the one after it were handed over and the unit succeeded
DecodeErrorsWitness ==
    /\ sPc = "returned" /\ skipped = 1
    /\ stream = <<"a", "n", "n", "n", "x", "a">>
    /\ handed = << <<"a">>, <<"a">> >>
    /\ ~shutdown_requested

LoadAllOrNothing ==
    [][(oPc = "load" /\ oPc' \in {"start", "score"}
          /\ (\/ checkpoint_file.state # "full"
              \/ \E f \in DOMAIN checkpoint_file.stats :
                    ~Restorable(checkpoint_file.stats[f])))
          => (processed_months' = processed_months /\ stats' = stats)]_vars
====
